---- MODULE Spec2Model ----
(***************************************************************************)
(* TargetPlugin.Scale of the azure-vmss-list autoscaler target: the        *)
(* coordinator that reads every scale set's capacity, plans the per-shard  *)
(* counts, fans the resize or delete requests out to one goroutine per     *)
(* scale set and, on scale-in, brackets the deletes with the Nomad         *)
(* pre/post scale-in hooks.                                                *)
(*                                                                         *)
(* Strings that the code inspects character by character (scale set names, *)
(* instance ids, remote ids) are sequences of one-character strings.       *)
(***************************************************************************)
EXTENDS Integers, Sequences, FiniteSets, TLC

VARIABLES
    vmScaleSetList,     \* config[vm_scale_set_list] split on ","
    resourceGroupList,  \* config[resource_group_list] split on ","
    actionCount,        \* action.Count
    vmssVMs,            \* per scale set: the instances the fleet API lists
    capacity,           \* per scale set: Sku.Capacity
    pc,                 \* position of the Scale call
    idx,                \* index of the loop the call is in (1-based)
    totalVMSSCapacity,
    num, direction, modulo, reminder,
    counts,             \* per scale set: count computed by the scale-out loop
    remoteIDs,          \* candidates collected by getRemoteIds
    ids,                \* nodes returned by the pre scale-in hook
    instanceIDs,        \* map scale set name -> instance ids to delete
    ret,                \* what Scale returned ("running" until it returns)
    wg,                 \* sync.WaitGroup counter
    task,               \* per scale set: state of its scaleOut/scaleIn goroutine
    taskErr,            \* per scale set: error its goroutine logged
    listResult,         \* per scale set: outcome of getRemoteIds
    preCalls, preResult,\* pre scale-in hook: calls made, outcome
    postCalls, postArg, \* post scale-in hook: calls made, last argument
    updateCalls,        \* per scale set: capacities sent to vmss.Update
    deleteCalls,        \* per scale set: id lists sent to vmss.DeleteInstances
    listCounts,         \* counts handed out by the list plugin's Scale
    instanceView,       \* per scale set: what GetInstanceView answers
    ready, totalCapacity, latestTime,   \* accumulators of Status
    resp,               \* the status Status returned (NoStatus until then)
    poolReady           \* outcome of clusterUtils.IsPoolReady

cfgVars   == <<vmScaleSetList, resourceGroupList, actionCount>>
fleetVars == <<vmssVMs, capacity>>
planVars  == <<totalVMSSCapacity, num, direction, modulo, reminder, counts>>
inVars    == <<remoteIDs, ids, instanceIDs>>
taskVars  == <<wg, task, taskErr>>
hookVars  == <<listResult, preCalls, preResult, postCalls, postArg>>
callVars  == <<updateCalls, deleteCalls>>
statusVars == <<instanceView, ready, totalCapacity, latestTime, resp, poolReady>>
vars == <<cfgVars, fleetVars, pc, idx, planVars, inVars, ret, taskVars,
          hookVars, callVars, listCounts, statusVars>>

----------------------------------------------------------------------------
(* Bounds *)
MaxShards == 2      \* scale sets in the list, full specification
MaxVMs == 2         \* instances per scale set, full specification
MaxCount == 3       \* largest action.Count, full specification
MaxCleared == 2     \* most nodes the pre scale-in hook returns
MaxPlanShards == 3  \* scale sets in the list, planning specification
MaxPlanVMs == 3     \* instances per scale set, planning specification
MaxPlanCount == 10  \* largest action.Count, planning specification
MaxStatusShards == 2 \* scale sets in the list, status specification
MaxStatusCap == 1   \* largest Sku.Capacity, status specification
MaxStatuses == 2    \* statuses in one instance view
MaxTime == 2        \* latest event time (UnixNano) of a status

DryRunCount == 0 - 1

\* math.MinInt64, on the scale of the event times of the model
MinInt64 == 0 - 128

----------------------------------------------------------------------------
(* Strings *)
Digits == <<"0", "1", "2", "3", "4", "5", "6", "7", "8", "9">>

Range(s) == {s[i] : i \in DOMAIN s}

SeqsUpTo(S, n) == UNION {[1..k -> S] : k \in 0..n}

RECURSIVE SumSeq(_)
SumSeq(s) == IF s = <<>> THEN 0 ELSE s[1] + SumSeq(Tail(s))

Min(a, b) == IF a < b THEN a ELSE b

\* unicode simple case folding, for the letters the names use
Fold(c) ==
    CASE c = "W" -> "w"
      [] c = "G" -> "g"
      [] c = "B" -> "b"
      [] OTHER -> c

EqualFold(s, t) ==
    /\ Len(s) = Len(t)
    /\ \A i \in 1..Len(s) : Fold(s[i]) = Fold(t[i])

\* a split at the first occurrence instead (strings.Index)
LastIndex_First(s, c) ==
    LET at == {i \in 1..Len(s) : s[i] = c}
    IN  IF at = {} THEN 0 - 1
        ELSE (CHOOSE i \in at : \A j \in at : i <= j) - 1

\* strings.LastIndex: 0-based index of the last occurrence, -1 if none
LastIndex(s, c) ==
    LET at == {i \in 1..Len(s) : s[i] = c}
    IN  IF at = {} THEN 0 - 1
        ELSE (CHOOSE i \in at : \A j \in at : j <= i) - 1

\* s[lo:hi] with Go's 0-based, half-open bounds
Slice(s, lo, hi) == SubSeq(s, lo + 1, hi)

\* fmt.Sprintf("%s_%s", vmScaleSet, instanceID)
RemoteID(vmScaleSet, instanceID) == vmScaleSet \o <<"_">> \o instanceID

----------------------------------------------------------------------------
(* Inputs *)
NameB == <<"b">>
NameWG == <<"w", "_", "g">>
NameWGUpper == <<"W", "_", "g">>
ShardNames == {NameB, NameWG, NameWGUpper}
PlanNames == <<<<"a">>, <<"b">>, <<"c">>, <<"d">>>>
ResourceGroups == <<"rg1", "rg2", "rg3", "rg4", "rg5">>

Running == <<"PowerState", "running">>
Deallocated == <<"PowerState", "deallocated">>
Succeeded == <<"ProvisioningState", "succeeded">>
StatusChoices == {<<Succeeded, Running>>, <<Succeeded, Deallocated>>}

\* the instance lists a scale set can hold: ids "0", "1", ... in order
VMLists(maxVMs, statuses) ==
    UNION {
        {[k \in 1..m |-> [InstanceID |-> <<Digits[k]>>, Statuses |-> st[k]]] :
            st \in [1..m -> statuses]} : m \in 0..maxVMs}

----------------------------------------------------------------------------
(* plugin.go: calculateScaleDirection *)
\* a grow that returns the difference instead of the absolute target
calculateScaleDirection_Delta(vmssDesired, strategyDesired) ==
    IF strategyDesired < vmssDesired
        THEN <<vmssDesired - strategyDesired, "in">>
    ELSE IF strategyDesired > vmssDesired
        THEN <<strategyDesired - vmssDesired, "out">>
    ELSE <<0, "">>

\* a comparison that treats an equal target as a grow
calculateScaleDirection_EqualGrows(vmssDesired, strategyDesired) ==
    IF strategyDesired < vmssDesired
        THEN <<vmssDesired - strategyDesired, "in">>
    ELSE <<strategyDesired, "out">>

calculateScaleDirection(vmssDesired, strategyDesired) ==
    IF strategyDesired < vmssDesired
        THEN <<vmssDesired - strategyDesired, "in">>
    ELSE IF strategyDesired > vmssDesired
        THEN <<strategyDesired, "out">>
    ELSE <<0, "">>

\* a loop that forgets the remainder
CountFor_NoRemainder(mod, rem) == mod

\* count := modulo; if reminder > 0 { count++ }
CountFor(mod, rem) == IF rem > 0 THEN mod + 1 ELSE mod

\* a loop that never uses the remainder up
ReminderAfter_Kept(rem) == rem

\* if reminder > 0 { reminder-- }
ReminderAfter(rem) == IF rem > 0 THEN rem - 1 ELSE rem

\* the list plugin's Scale: j = 1 while i > 0, and the sub-plugin gets count + j
ListPluginCount(count, i) == IF i > 0 THEN count + 1 ELSE count

----------------------------------------------------------------------------
(* AzureController.getRemoteIds *)
\* the first status with the PowerState/ prefix decides; running is appended
RECURSIVE IsRunning(_)
IsRunning(statuses) ==
    IF statuses = <<>> THEN FALSE
    ELSE IF statuses[1][1] = "PowerState" THEN statuses[1] = Running
    ELSE IsRunning(Tail(statuses))

RECURSIVE getRemoteIds(_, _, _)
getRemoteIds(vmScaleSet, vms, acc) ==
    IF vms = <<>> THEN acc
    ELSE getRemoteIds(vmScaleSet, Tail(vms),
            IF IsRunning(vms[1].Statuses)
                THEN Append(acc, RemoteID(vmScaleSet, vms[1].InstanceID))
                ELSE acc)

----------------------------------------------------------------------------
(* plugin.go: mapping the cleared nodes back to scale sets *)
\* the inner loop over vmScaleSetList for one node with separator at sep
RECURSIVE AppendMatches(_, _, _, _)
AppendMatches(m, node, sep, list) ==
    IF list = <<>> THEN m
    ELSE LET vmScaleSet == list[1]
             m2 == IF EqualFold(Slice(node, 0, sep), vmScaleSet)
                     THEN [m EXCEPT ![vmScaleSet] =
                              Append(@, Slice(node, sep + 1, Len(node)))]
                     ELSE m
         IN  AppendMatches(m2, node, sep, Tail(list))

\* what the hook may return: any short list over the candidates and two
\* identifiers the plugin never built
Unseparated == <<"x">>
Foreign == <<"z", "_", "0">>
HookResponses(candidates, n) ==
    SeqsUpTo(Range(candidates) \cup {Unseparated, Foreign}, Min(MaxCleared, n))

----------------------------------------------------------------------------
(* plugin.go: Status and processInstanceView *)
Updating == <<"ProvisioningState", "updating">>
\* a status without a time (Time == nil)
NoTime == 0

\* the instance views a scale set can report
InstanceViews ==
    [StatusesSummary : {<<Succeeded>>, <<Updating>>},
     Statuses : SeqsUpTo([Code : {Succeeded, Updating},
                          Time : {NoTime} \cup 1..MaxTime], MaxStatuses)]

\* strconv.FormatInt(n, 10)
RECURSIVE FormatDigits(_)
FormatDigits(n) ==
    IF n < 10 THEN <<Digits[n + 1]>>
    ELSE Append(FormatDigits(n \div 10), Digits[(n % 10) + 1])

FormatInt(n) == IF n < 0 THEN <<"-">> \o FormatDigits(0 - n) ELSE FormatDigits(n)

\* strconv.ParseInt(s, 10, 64) with the error dropped: 0 for a string that
\* is no number
IsDigit(c) == \E k \in 1..10 : Digits[k] = c

DigitValue(c) == (CHOOSE k \in 1..10 : Digits[k] = c) - 1

RECURSIVE ParseDigits(_, _)
ParseDigits(s, acc) ==
    IF s = <<>> THEN acc
    ELSE ParseDigits(Tail(s), (acc * 10) + DigitValue(s[1]))

ParseInt(s) ==
    LET digits == IF s # <<>> /\ s[1] = "-" THEN Tail(s) ELSE s
    IN  IF digits = <<>> \/ \E i \in 1..Len(digits) : ~IsDigit(digits[i]) THEN 0
        ELSE IF s[1] = "-" THEN 0 - ParseDigits(digits, 0)
        ELSE ParseDigits(digits, 0)

\* the first loop of processInstanceView: one code that is not succeeded
\* clears Ready
RECURSIVE SummaryReady(_, _)
SummaryReady(summary, isReady) ==
    IF summary = <<>> THEN isReady
    ELSE SummaryReady(Tail(summary), IF summary[1] # Succeeded THEN FALSE ELSE isReady)

\* the second loop: st is the status built so far, latest the loop's latestTime
RECURSIVE StatusesLoop(_, _, _)
StatusesLoop(statuses, st, latest) ==
    IF statuses = <<>> THEN st
    ELSE LET s1 == statuses[1]
             st1 == IF s1.Code # Succeeded THEN [st EXCEPT !.Ready = FALSE] ELSE st
             newer == s1.Time # NoTime /\ s1.Time > latest
         IN  StatusesLoop(Tail(statuses),
                 IF newer THEN [st1 EXCEPT !.Meta = FormatInt(s1.Time)] ELSE st1,
                 IF newer THEN s1.Time ELSE latest)

processInstanceView(view, status) ==
    StatusesLoop(view.Statuses,
                 [status EXCEPT !.Ready = SummaryReady(view.StatusesSummary, status.Ready)],
                 MinInt64)

\* the status of one scale set: Ready true, Count the capacity, empty Meta,
\* then processInstanceView
ShardStatus(i) ==
    processInstanceView(instanceView[i],
                        [Ready |-> TRUE, Count |-> capacity[i], Meta |-> <<>>])

\* an aggregate that keeps only the last scale set's readiness
ReadyAfter_LastWins(isReady, shardReady) == shardReady

\* if ready && !resp.Ready { ready = false }
ReadyAfter(isReady, shardReady) == IF isReady /\ ~shardReady THEN FALSE ELSE isReady

\* if currentTime > latestTime { latestTime = currentTime }
LatestAfter(latest, currentTime) == IF currentTime > latest THEN currentTime ELSE latest

----------------------------------------------------------------------------
(* Initial states *)
NumShards == Len(vmScaleSetList)
Shards == 1..NumShards

\* the resource group lists of n entries, or of up to slack more or fewer
\* (strings.Split never returns an empty list)
ResourceGroupLists(n, slack) ==
    {[i \in 1..m |-> ResourceGroups[i]] :
        m \in {k \in (n - slack)..(n + slack) : k >= 1}}

\* no status returned (yet)
NoStatus == [Ready |-> FALSE, Count |-> 0, Meta |-> <<>>]

\* the locals of a call that has not run yet
Fresh ==
    /\ idx = 1
    /\ totalVMSSCapacity = 0
    /\ num = 0 /\ direction = "" /\ modulo = 0 /\ reminder = 0
    /\ counts = [i \in 1..Len(vmScaleSetList) |-> 0]
    /\ remoteIDs = <<>>
    /\ ids = <<>>
    /\ instanceIDs = [s \in Range(vmScaleSetList) |-> <<>>]
    /\ ret = "running"
    /\ wg = 0
    /\ task = [i \in 1..Len(vmScaleSetList) |-> "none"]
    /\ taskErr = [i \in 1..Len(vmScaleSetList) |-> ""]
    /\ listResult = [i \in 1..Len(vmScaleSetList) |-> "none"]
    /\ preCalls = 0 /\ preResult = "none"
    /\ postCalls = 0 /\ postArg = <<>>
    /\ updateCalls = [i \in 1..Len(vmScaleSetList) |-> <<>>]
    /\ deleteCalls = [i \in 1..Len(vmScaleSetList) |-> <<>>]
    /\ listCounts = <<>>
    /\ ready = TRUE /\ totalCapacity = 0 /\ latestTime = MinInt64
    /\ resp = NoStatus /\ poolReady = "none"

InitWith(lists, vmLists, maxCount, slack) ==
    /\ vmScaleSetList \in lists
    /\ resourceGroupList \in ResourceGroupLists(Len(vmScaleSetList), slack)
    /\ actionCount \in DryRunCount..maxCount
    /\ vmssVMs \in [1..Len(vmScaleSetList) -> vmLists]
    /\ capacity = [i \in 1..Len(vmScaleSetList) |-> Len(vmssVMs[i])]
    /\ instanceView = <<>>
    /\ pc = "start"
    /\ Fresh

Init ==
    InitWith(UNION {[1..n -> ShardNames] : n \in 1..MaxShards},
             VMLists(MaxVMs, StatusChoices), MaxCount, 0)

PlanInit ==
    InitWith({[i \in 1..n |-> PlanNames[i]] : n \in 1..MaxPlanShards},
             VMLists(MaxPlanVMs, {<<Succeeded, Running>>}), MaxPlanCount, 0)

\* Status called on a fleet with any small instance views
StatusInit ==
    /\ vmScaleSetList \in {[i \in 1..n |-> PlanNames[i]] : n \in 1..MaxStatusShards}
    /\ resourceGroupList \in ResourceGroupLists(Len(vmScaleSetList), 0)
    /\ actionCount = 0
    /\ vmssVMs = [i \in 1..Len(vmScaleSetList) |-> <<>>]
    /\ capacity \in [1..Len(vmScaleSetList) -> 0..MaxStatusCap]
    /\ instanceView \in [1..Len(vmScaleSetList) -> InstanceViews]
    /\ pc = "st_start"
    /\ Fresh

\* Scale called with lists whose lengths may differ by one
ConfigInit ==
    InitWith({[i \in 1..n |-> PlanNames[i]] : n \in 1..MaxShards},
             VMLists(MaxVMs, StatusChoices), MaxCount, 1)

----------------------------------------------------------------------------
(* plugin.go: Scale, up to the switch on the direction *)
Return(r) == pc' = "done" /\ ret' = r

\* list[idx] is inside the list (idx is 1-based here)
InRange(list, i) == i <= Len(list)

\* if action.Count == sdk.StrategyActionMetaValueDryRunCount { return nil }
DryRun ==
    /\ pc = "start" /\ actionCount = DryRunCount
    /\ Return("nil")
    /\ UNCHANGED statusVars
    /\ UNCHANGED <<cfgVars, fleetVars, idx, planVars, inVars, taskVars,
                   hookVars, callVars, listCounts>>

Begin ==
    /\ pc = "start" /\ actionCount # DryRunCount
    /\ pc' = "get" /\ idx' = 1
    /\ UNCHANGED statusVars
    /\ UNCHANGED <<cfgVars, fleetVars, planVars, inVars, ret, taskVars,
                   hookVars, callVars, listCounts>>

\* one iteration of the capacity loop: vmss.Get answers or fails
\* (resourceGroupList[idx] is evaluated first: past the end of that list
\* the index expression panics)
GetCapacity ==
    /\ pc = "get" /\ idx <= NumShards
    /\ IF ~InRange(resourceGroupList, idx)
         THEN /\ Return("panic")
              /\ UNCHANGED <<idx, totalVMSSCapacity>>
         ELSE \E ok \in BOOLEAN :
            IF ok
                THEN /\ totalVMSSCapacity' = totalVMSSCapacity + capacity[idx]
                     /\ idx' = idx + 1
                     /\ UNCHANGED <<pc, ret>>
                ELSE /\ Return("err_get")
                     /\ UNCHANGED <<idx, totalVMSSCapacity>>
    /\ UNCHANGED statusVars
    /\ UNCHANGED <<cfgVars, fleetVars, num, direction, modulo, reminder, counts,
                   inVars, taskVars, hookVars, callVars, listCounts>>

\* lines 80-86 and 158-160: the plan, wg.Add and the switch
Calculate ==
    /\ pc = "get" /\ idx > NumShards
    /\ LET r == calculateScaleDirection(totalVMSSCapacity, actionCount)
       IN  /\ num' = r[1]
           /\ direction' = r[2]
           /\ modulo' = r[1] \div NumShards
           /\ reminder' = r[1] % NumShards
           /\ idx' = 1
           /\ IF r[2] = "out"
                THEN pc' = "out_loop" /\ wg' = wg + NumShards /\ UNCHANGED ret
              ELSE IF r[2] = "in"
                THEN pc' = "list" /\ wg' = wg + NumShards /\ UNCHANGED ret
              ELSE Return("nil") /\ UNCHANGED wg
    /\ UNCHANGED statusVars
    /\ UNCHANGED <<cfgVars, fleetVars, totalVMSSCapacity, counts, inVars,
                   task, taskErr, hookVars, callVars, listCounts>>

----------------------------------------------------------------------------
(* plugin.go: case "out", and AzureController.scaleOut *)
\* a branch that forgets to lower the counter
Done_Forgotten(counter) == counter

\* wg.Done()
Done(counter) == counter - 1

\* a dispatch that skips a scale set with a single unit of work
NeedsScaleOut_MoreThanOne(count) == count > 1

\* if count > 0 { go scaleOut } else { wg.Done() }
NeedsScaleOut(count) == count > 0

\* if len(instanceIDs[vmScaleSet]) > 0 { go scaleIn } else { wg.Done() }
NeedsScaleIn(instances) == Len(instances) > 0

\* a wait that does not join the goroutines
WaitReturns_NoJoin(counter) == TRUE

\* wg.Wait() returns when the counter is zero
WaitReturns(counter) == counter = 0

OutLoop ==
    /\ pc = "out_loop" /\ idx <= NumShards
    /\ LET count == CountFor(modulo, reminder)
       IN  /\ counts' = [counts EXCEPT ![idx] = count]
           /\ reminder' = ReminderAfter(reminder)
           /\ IF NeedsScaleOut(count)
                THEN task' = [task EXCEPT ![idx] = "started"] /\ UNCHANGED wg
                ELSE wg' = Done(wg) /\ UNCHANGED task
    /\ idx' = idx + 1
    /\ UNCHANGED statusVars
    /\ UNCHANGED <<cfgVars, fleetVars, pc, totalVMSSCapacity, num, direction,
                   modulo, inVars, ret, taskErr, hookVars, callVars, listCounts>>

OutLoopEnd ==
    /\ pc = "out_loop" /\ idx > NumShards
    /\ pc' = "out_wait"
    /\ UNCHANGED statusVars
    /\ UNCHANGED <<cfgVars, fleetVars, idx, planVars, inVars, ret, taskVars,
                   hookVars, callVars, listCounts>>

\* ac.vmss.Update: the request is sent; it is accepted or it fails
ScaleOutUpdate(i) ==
    /\ direction = "out" /\ task[i] = "started"
    /\ updateCalls' = [updateCalls EXCEPT ![i] = Append(@, counts[i])]
    /\ \E ok \in BOOLEAN :
        IF ok
            THEN /\ task' = [task EXCEPT ![i] = "waiting"]
                 /\ UNCHANGED <<wg, taskErr>>
            ELSE /\ taskErr' = [taskErr EXCEPT ![i] = "request"]
                 /\ task' = [task EXCEPT ![i] = "done"]
                 /\ wg' = Done(wg)
    /\ UNCHANGED statusVars
    /\ UNCHANGED <<cfgVars, fleetVars, pc, idx, planVars, inVars, ret,
                   hookVars, deleteCalls, listCounts>>

\* future.WaitForCompletionRef, then the deferred wg.Done()
ScaleOutWait(i) ==
    /\ direction = "out" /\ task[i] = "waiting"
    /\ \E ok \in BOOLEAN :
        IF ok
            THEN /\ capacity' = [capacity EXCEPT ![i] = counts[i]]
                 /\ UNCHANGED taskErr
            ELSE /\ taskErr' = [taskErr EXCEPT ![i] = "wait"]
                 /\ UNCHANGED capacity
    /\ task' = [task EXCEPT ![i] = "done"]
    /\ wg' = Done(wg)
    /\ UNCHANGED statusVars
    /\ UNCHANGED <<cfgVars, vmssVMs, pc, idx, planVars, inVars, ret,
                   hookVars, callVars, listCounts>>

\* wg.Wait() returns, the success line is logged, Scale returns nil
OutReturn ==
    /\ pc = "out_wait" /\ WaitReturns(wg)
    /\ Return("nil")
    /\ UNCHANGED statusVars
    /\ UNCHANGED <<cfgVars, fleetVars, idx, planVars, inVars, taskVars,
                   hookVars, callVars, listCounts>>

----------------------------------------------------------------------------
(* plugin.go: case "in", and AzureController.getRemoteIds, scaleIn *)
\* a collection that ignores the error of a page advance
ListAborts_FirstPageOnly(outcome) == outcome = "list_err"

\* if err != nil { return ... } after getRemoteIds
ListAborts(outcome) == outcome # "ok"

\* a hook error that is not checked
PreDrainAborts_Never(ok) == FALSE

\* if err != nil { return ... } after RunPreScaleInTasksWithRemoteCheck
PreDrainAborts(ok) == ~ok

\* an identifier without separator that is skipped
SeparatorFound_Always(sep) == TRUE

\* if idx := strings.LastIndex(...); idx != -1
SeparatorFound(sep) == sep # 0 - 1

\* the post hook called with the candidates, as the log line before it prints
PostDrainArg_Candidates == remoteIDs

\* the node list handed to RunPostScaleInTasks
PostDrainArg == ids

\* one iteration of the collection loop: List fails, a page advance fails,
\* or every page is read
ListIDs ==
    /\ pc = "list" /\ idx <= NumShards
    /\ \E outcome \in {"ok", "list_err", "next_err"} :
        /\ listResult' = [listResult EXCEPT ![idx] = outcome]
        /\ IF ListAborts(outcome)
             THEN /\ Return("err_list")
                  /\ UNCHANGED <<idx, remoteIDs>>
             ELSE /\ remoteIDs' = IF outcome = "ok"
                        THEN getRemoteIds(vmScaleSetList[idx], vmssVMs[idx], remoteIDs)
                        ELSE <<>>
                  /\ idx' = idx + 1
                  /\ UNCHANGED <<pc, ret>>
    /\ UNCHANGED statusVars
    /\ UNCHANGED <<cfgVars, fleetVars, planVars, ids, instanceIDs, taskVars,
                   preCalls, preResult, postCalls, postArg, callVars, listCounts>>

\* RunPreScaleInTasksWithRemoteCheck(ctx, config, remoteIDs, int(num)) is called
PreDrainCall ==
    /\ pc = "list" /\ idx > NumShards
    /\ preCalls' = preCalls + 1
    /\ pc' = "pre_wait"
    /\ UNCHANGED statusVars
    /\ UNCHANGED <<cfgVars, fleetVars, idx, planVars, inVars, ret, taskVars,
                   listResult, preResult, postCalls, postArg, callVars, listCounts>>

\* the hook returns an error, or the nodes it cleared
PreDrainReturn ==
    /\ pc = "pre_wait"
    /\ \E ok \in BOOLEAN :
        /\ preResult' = IF ok THEN "ok" ELSE "err"
        /\ IF PreDrainAborts(ok)
             THEN /\ Return("err_pre")
                  /\ UNCHANGED <<idx, ids>>
             ELSE /\ ids' \in HookResponses(remoteIDs, num)
                  /\ pc' = "map" /\ idx' = 1
                  /\ UNCHANGED ret
    /\ UNCHANGED statusVars
    /\ UNCHANGED <<cfgVars, fleetVars, planVars, remoteIDs, instanceIDs, taskVars,
                   listResult, preCalls, postCalls, postArg, callVars, listCounts>>

\* one iteration of the loop over ids (lines 129-139)
MapNode ==
    /\ pc = "map" /\ idx <= Len(ids)
    /\ LET node == ids[idx]
           sep == LastIndex(node, "_")
       IN  IF SeparatorFound(sep)
             THEN /\ instanceIDs' = AppendMatches(instanceIDs, node, sep, vmScaleSetList)
                  /\ idx' = idx + 1
                  /\ UNCHANGED <<pc, ret>>
             ELSE /\ Return("err_malformed")
                  /\ UNCHANGED <<idx, instanceIDs>>
    /\ UNCHANGED statusVars
    /\ UNCHANGED <<cfgVars, fleetVars, planVars, remoteIDs, ids, taskVars,
                   hookVars, callVars, listCounts>>

MapEnd ==
    /\ pc = "map" /\ idx > Len(ids)
    /\ pc' = "in_loop" /\ idx' = 1
    /\ UNCHANGED statusVars
    /\ UNCHANGED <<cfgVars, fleetVars, planVars, inVars, ret, taskVars,
                   hookVars, callVars, listCounts>>

\* one iteration of the dispatch loop (lines 141-150)
InLoop ==
    /\ pc = "in_loop" /\ idx <= NumShards
    /\ IF NeedsScaleIn(instanceIDs[vmScaleSetList[idx]])
         THEN task' = [task EXCEPT ![idx] = "started"] /\ UNCHANGED wg
         ELSE wg' = Done(wg) /\ UNCHANGED task
    /\ idx' = idx + 1
    /\ UNCHANGED statusVars
    /\ UNCHANGED <<cfgVars, fleetVars, pc, planVars, inVars, ret, taskErr,
                   hookVars, callVars, listCounts>>

InLoopEnd ==
    /\ pc = "in_loop" /\ idx > NumShards
    /\ pc' = "in_wait"
    /\ UNCHANGED statusVars
    /\ UNCHANGED <<cfgVars, fleetVars, idx, planVars, inVars, ret, taskVars,
                   hookVars, callVars, listCounts>>

\* ac.vmss.DeleteInstances: the request is sent; it is accepted or it fails
ScaleInDelete(i) ==
    /\ direction = "in" /\ task[i] = "started"
    /\ deleteCalls' = [deleteCalls EXCEPT ![i] = Append(@, instanceIDs[vmScaleSetList[i]])]
    /\ \E ok \in BOOLEAN :
        IF ok
            THEN /\ task' = [task EXCEPT ![i] = "waiting"]
                 /\ UNCHANGED <<wg, taskErr>>
            ELSE /\ taskErr' = [taskErr EXCEPT ![i] = "request"]
                 /\ task' = [task EXCEPT ![i] = "done"]
                 /\ wg' = Done(wg)
    /\ UNCHANGED statusVars
    /\ UNCHANGED <<cfgVars, fleetVars, pc, idx, planVars, inVars, ret,
                   hookVars, updateCalls, listCounts>>

\* the instances of scale set i that a delete of these ids removes
Deleted(i, del) == {k \in 1..Len(vmssVMs[i]) : vmssVMs[i][k].InstanceID \in Range(del)}

\* future.WaitForCompletionRef, then the deferred wg.Done()
ScaleInWait(i) ==
    /\ direction = "in" /\ task[i] = "waiting"
    /\ \E ok \in BOOLEAN :
        IF ok
            THEN /\ capacity' = [capacity EXCEPT ![i] =
                        @ - Cardinality(Deleted(i, instanceIDs[vmScaleSetList[i]]))]
                 /\ UNCHANGED taskErr
            ELSE /\ taskErr' = [taskErr EXCEPT ![i] = "wait"]
                 /\ UNCHANGED capacity
    /\ task' = [task EXCEPT ![i] = "done"]
    /\ wg' = Done(wg)
    /\ UNCHANGED statusVars
    /\ UNCHANGED <<cfgVars, vmssVMs, pc, idx, planVars, inVars, ret,
                   hookVars, callVars, listCounts>>

\* wg.Wait() returns and RunPostScaleInTasks(ctx, config, ids) is called
PostDrainCall ==
    /\ pc = "in_wait" /\ WaitReturns(wg)
    /\ postCalls' = postCalls + 1
    /\ postArg' = PostDrainArg
    /\ pc' = "post_wait"
    /\ UNCHANGED statusVars
    /\ UNCHANGED <<cfgVars, fleetVars, idx, planVars, inVars, ret, taskVars,
                   listResult, preCalls, preResult, callVars, listCounts>>

\* the post hook returns; its error is the call's error
PostDrainReturn ==
    /\ pc = "post_wait"
    /\ \E ok \in BOOLEAN : Return(IF ok THEN "nil" ELSE "err_post")
    /\ UNCHANGED statusVars
    /\ UNCHANGED <<cfgVars, fleetVars, idx, planVars, inVars, taskVars,
                   hookVars, callVars, listCounts>>

----------------------------------------------------------------------------
(* The list plugin's Scale, which splits action.Count itself and hands     *)
(* count + j to the azure-vmss plugin of each scale set                    *)
ListPluginBegin ==
    /\ pc = "start" /\ actionCount # DryRunCount
    /\ modulo' = actionCount \div NumShards
    /\ reminder' = actionCount % NumShards
    /\ pc' = "lp_loop" /\ idx' = 1
    /\ UNCHANGED statusVars
    /\ UNCHANGED <<cfgVars, fleetVars, totalVMSSCapacity, num, direction, counts,
                   inVars, ret, taskVars, hookVars, callVars, listCounts>>

ListPluginLoop ==
    /\ pc = "lp_loop" /\ idx <= NumShards
    /\ listCounts' = Append(listCounts, ListPluginCount(modulo, reminder))
    /\ reminder' = ReminderAfter(reminder)
    /\ \E ok \in BOOLEAN :
        IF ok
            THEN idx' = idx + 1 /\ UNCHANGED <<pc, ret>>
            ELSE Return("err_sub") /\ UNCHANGED idx
    /\ UNCHANGED statusVars
    /\ UNCHANGED <<cfgVars, fleetVars, totalVMSSCapacity, num, direction, modulo,
                   counts, inVars, taskVars, hookVars, callVars>>

ListPluginEnd ==
    /\ pc = "lp_loop" /\ idx > NumShards
    /\ Return("nil")
    /\ UNCHANGED statusVars
    /\ UNCHANGED <<cfgVars, fleetVars, idx, planVars, inVars, taskVars,
                   hookVars, callVars, listCounts>>

----------------------------------------------------------------------------
(* Specifications *)
ScaleOutTask == \E i \in Shards : ScaleOutUpdate(i) \/ ScaleOutWait(i)

ScaleInTask == \E i \in Shards : ScaleInDelete(i) \/ ScaleInWait(i)

Next ==
    \/ DryRun \/ Begin \/ GetCapacity \/ Calculate
    \/ OutLoop \/ OutLoopEnd \/ ScaleOutTask \/ OutReturn
    \/ ListIDs \/ PreDrainCall \/ PreDrainReturn \/ MapNode \/ MapEnd
    \/ InLoop \/ InLoopEnd \/ ScaleInTask \/ PostDrainCall \/ PostDrainReturn

Spec == Init /\ [][Next]_vars

\* every goroutine and the coordinator keep running, and every external
\* call returns
FairSpec == Init /\ [][Next]_vars /\ WF_vars(Next)

\* planning and scale-out over larger counts, with the list plugin's split;
\* a scale-in stops after the plan
PlanNext ==
    \/ DryRun \/ Begin \/ GetCapacity
    \/ Calculate
    \/ OutLoop \/ OutLoopEnd \/ ScaleOutTask \/ OutReturn
    \/ ListPluginBegin \/ ListPluginLoop \/ ListPluginEnd

PlanSpec == PlanInit /\ [][PlanNext]_vars

----------------------------------------------------------------------------
(* plugin.go: Status *)
ReturnStatus(r) == pc' = "done" /\ ret' = "nil" /\ resp' = r

StatusError == pc' = "done" /\ ret' = "err_status" /\ UNCHANGED resp

\* IsPoolReady fails, says the node pool is not ready, or says it is
StatusBegin ==
    /\ pc = "st_start"
    /\ \E outcome \in {"err", "notready", "ready"} :
        /\ poolReady' = outcome
        /\ IF outcome = "err"
             THEN StatusError /\ UNCHANGED <<idx, ready, totalCapacity, latestTime>>
           ELSE IF outcome = "notready"
             THEN /\ ReturnStatus([Ready |-> FALSE, Count |-> 0, Meta |-> <<>>])
                  /\ UNCHANGED <<idx, ready, totalCapacity, latestTime>>
           ELSE /\ ready' = TRUE /\ totalCapacity' = 0 /\ latestTime' = MinInt64
                /\ pc' = "st_loop" /\ idx' = 1
                /\ UNCHANGED <<ret, resp>>
    /\ UNCHANGED <<cfgVars, fleetVars, planVars, inVars, taskVars,
                   hookVars, callVars, listCounts, instanceView>>

\* one iteration: vmss.Get and GetInstanceView answer, or one of them fails
StatusLoop ==
    /\ pc = "st_loop" /\ idx <= NumShards
    /\ \E ok \in BOOLEAN :
        IF ok
            THEN LET st == ShardStatus(idx)
                 IN  /\ totalCapacity' = totalCapacity + st.Count
                     /\ ready' = ReadyAfter(ready, st.Ready)
                     /\ latestTime' = IF Len(st.Meta) > 0
                                        THEN LatestAfter(latestTime, ParseInt(st.Meta))
                                        ELSE latestTime
                     /\ idx' = idx + 1
                     /\ UNCHANGED <<pc, ret, resp>>
            ELSE /\ StatusError
                 /\ UNCHANGED <<idx, ready, totalCapacity, latestTime>>
    /\ UNCHANGED <<cfgVars, fleetVars, planVars, inVars, taskVars,
                   hookVars, callVars, listCounts, instanceView, poolReady>>

StatusEnd ==
    /\ pc = "st_loop" /\ idx > NumShards
    /\ ReturnStatus([Ready |-> ready, Count |-> totalCapacity,
                     Meta |-> FormatInt(latestTime)])
    /\ UNCHANGED <<cfgVars, fleetVars, idx, planVars, inVars, taskVars,
                   hookVars, callVars, listCounts, instanceView, ready,
                   totalCapacity, latestTime, poolReady>>

(* The list plugin's Status, over the statuses of the azure-vmss plugins *)
ListStatusBegin ==
    /\ pc = "st_start"
    /\ poolReady' = "skipped"
    /\ ready' = TRUE /\ totalCapacity' = 0 /\ latestTime' = MinInt64
    /\ pc' = "ls_loop" /\ idx' = 1
    /\ UNCHANGED <<cfgVars, fleetVars, planVars, inVars, ret, taskVars,
                   hookVars, callVars, listCounts, instanceView, resp>>

\* one iteration: the sub-plugin's Status answers or fails
ListStatusLoop ==
    /\ pc = "ls_loop" /\ idx <= NumShards
    /\ \E ok \in BOOLEAN :
        IF ok
            THEN LET status == ShardStatus(idx)
                 IN  /\ totalCapacity' = totalCapacity + status.Count
                     /\ ready' = ReadyAfter(ready, status.Ready)
                     /\ latestTime' = LatestAfter(latestTime, ParseInt(status.Meta))
                     /\ idx' = idx + 1
                     /\ UNCHANGED <<pc, ret, resp>>
            ELSE /\ StatusError
                 /\ UNCHANGED <<idx, ready, totalCapacity, latestTime>>
    /\ UNCHANGED <<cfgVars, fleetVars, planVars, inVars, taskVars,
                   hookVars, callVars, listCounts, instanceView, poolReady>>

ListStatusEnd ==
    /\ pc = "ls_loop" /\ idx > NumShards
    /\ ReturnStatus([Ready |-> ready, Count |-> totalCapacity,
                     Meta |-> FormatInt(latestTime)])
    /\ UNCHANGED <<cfgVars, fleetVars, idx, planVars, inVars, taskVars,
                   hookVars, callVars, listCounts, instanceView, ready,
                   totalCapacity, latestTime, poolReady>>

StatusNext ==
    \/ StatusBegin \/ StatusLoop \/ StatusEnd
    \/ ListStatusBegin \/ ListStatusLoop \/ ListStatusEnd

StatusSpec == StatusInit /\ [][StatusNext]_vars

\* Scale over lists whose lengths may differ
ConfigSpec == ConfigInit /\ [][Next]_vars

----------------------------------------------------------------------------
(* Properties *)
AllFinished == \A i \in Shards : task[i] \in {"none", "done"}

NoDelete == \A i \in Shards : deleteCalls[i] = <<>> /\ task[i] = "none"

HasSeparator(node) == "_" \in Range(node)

\* the capacity the fleet had when Scale was called
InitialTotal == SumSeq([i \in Shards |-> Len(vmssVMs[i])])

\* plugin.go's Scale has computed its plan
Calculated ==
    /\ pc \notin {"start", "get", "lp_loop"}
    /\ ret # "err_get"
    /\ actionCount # DryRunCount
    /\ listCounts = <<>>

\* C1: on the shrink path every scale set is listed before the pre-drain
\* hook is called, the hook has returned before any delete request is
\* issued, and every dispatched delete goroutine has finished before the
\* post-drain hook is called.
C1_ShrinkOrdering ==
    /\ preCalls > 0 => \A i \in Shards : listResult[i] = "ok"
    /\ (\E i \in Shards : deleteCalls[i] # <<>> \/ task[i] # "none") /\ direction = "in"
          => preResult = "ok"
    /\ postCalls > 0 => AllFinished

C1_Witness ==
    /\ postCalls = 1
    /\ \E i, j \in Shards : i # j /\ deleteCalls[i] # <<>> /\ deleteCalls[j] # <<>>

\* C2 (as claimed): once Scale has returned, a failed resize or delete of any
\* scale set has made it return an error, and every goroutine has finished.
C2_FailTogether ==
    (pc = "done" /\ \E i \in Shards : taskErr[i] # "")
        => (ret # "nil" /\ AllFinished)

\* m split over n scale sets: sums to m, floor or floor + 1 each, m mod n
\* larger ones, held by the first scale sets
PlanOK(c, m, n) ==
    /\ Len(c) = n
    /\ SumSeq(c) = m
    /\ \A i \in 1..n : c[i] \in {m \div n, (m \div n) + 1}
    /\ Cardinality({i \in 1..n : c[i] = (m \div n) + 1}) = m % n
    /\ \A i \in 1..n : c[i] = (m \div n) + 1 <=> i <= m % n

\* C3: the per-shard counts of the scale-out loop split the magnitude evenly,
\* remainder first, and so do the counts the list plugin hands out.
C3_EvenSplit ==
    /\ (direction = "out" /\ pc \in {"out_wait", "done"})
          => PlanOK(counts, num, NumShards)
    /\ (pc = "done" /\ Len(listCounts) = NumShards)
          => PlanOK(listCounts, actionCount, NumShards)

C3_Witness ==
    /\ pc = "out_wait" /\ NumShards = 3
    /\ num % 3 = 2 /\ counts[2] = counts[3] + 1

\* C4: when the pre-drain hook returns an identifier without "_", Scale
\* stops in the mapping loop with the malformed-id error and no scale set
\* gets a delete request, whatever the other identifiers were.
C4_MalformedAborts ==
    (preResult = "ok" /\ \E k \in 1..Len(ids) : ~HasSeparator(ids[k]))
        => /\ NoDelete
           /\ pc \in {"map", "done"}
           /\ pc = "done" => ret = "err_malformed"

C4_Witness ==
    /\ pc = "done" /\ ret = "err_malformed"
    /\ Len(ids) = 2 /\ HasSeparator(ids[1])
    /\ \E s \in Range(vmScaleSetList) : instanceIDs[s] # <<>>

\* C5: when the pre-drain hook fails, Scale returns the pre-drain error and
\* no scale set gets a delete request.
C5_PreDrainError ==
    preResult = "err" => (pc = "done" /\ ret = "err_pre" /\ NoDelete)

C5_Witness == preResult = "err" /\ pc = "done" /\ remoteIDs # <<>>

\* C6: when the listing of a scale set fails, Scale returns the listing
\* error; the pre-drain hook is never called and nothing is deleted.
C6_ListError ==
    (\E i \in Shards : listResult[i] \in {"list_err", "next_err"})
        => (pc = "done" /\ ret = "err_list" /\ preCalls = 0 /\ NoDelete)

C6_Witness ==
    /\ NumShards = 2
    /\ listResult[1] = "ok" /\ listResult[2] = "next_err"
    /\ pc = "done"

\* C7: once the dispatch of the deletes begins, the post-drain hook is
\* eventually called; it is called at most once, with the nodes the
\* pre-drain hook cleared, and only when every delete goroutine has finished.
C7_PostDrain ==
    /\ [](/\ postCalls <= 1
          /\ postCalls = 1 => (postArg = ids /\ AllFinished))
    /\ (pc = "in_loop") ~> (postCalls = 1)

C7_Witness ==
    /\ postCalls = 1 /\ postArg # <<>>
    /\ \E i \in Shards : taskErr[i] = "wait"
    /\ \E i \in Shards : task[i] = "done" /\ taskErr[i] = ""

\* the mapping loop has run to its end
MappingDone ==
    \/ pc \in {"in_loop", "in_wait", "post_wait"}
    \/ pc = "done" /\ postCalls = 1

\* C8 (as claimed): every cleared identifier with a "_" has its suffix in the
\* delete set of exactly one scale set of the list, one whose name equals
\* its prefix up to case.
C8_ExactlyOneShard ==
    MappingDone =>
        \A k \in 1..Len(ids) : HasSeparator(ids[k]) =>
            LET sep == LastIndex(ids[k], "_")
                prefix == Slice(ids[k], 0, sep)
                suffix == Slice(ids[k], sep + 1, Len(ids[k]))
            IN  Cardinality({i \in Shards :
                    /\ suffix \in Range(instanceIDs[vmScaleSetList[i]])
                    /\ EqualFold(prefix, vmScaleSetList[i])}) = 1

\* C9: the plan shrinks by current - target, grows by the absolute target,
\* and is empty when target and current agree.
C9_Direction ==
    Calculated =>
        /\ actionCount < InitialTotal
              => (direction = "in" /\ num = InitialTotal - actionCount)
        /\ actionCount > InitialTotal
              => (direction = "out" /\ num = actionCount)
        /\ actionCount = InitialTotal
              => (direction = "" /\ num = 0)

C9_Witness ==
    /\ Calculated /\ direction = "out"
    /\ InitialTotal > 0 /\ num = actionCount

\* target 10 over a current total of 7 on three scale sets, planned
TenOverSeven ==
    /\ direction = "out" /\ pc = "out_wait"
    /\ NumShards = 3 /\ actionCount = 10 /\ totalVMSSCapacity = 7

\* C10 (as claimed): target 10, current 7, three scale sets: magnitude 3 and
\* counts [1,1,1].
C10_Example == TenOverSeven => (num = 3 /\ counts = <<1, 1, 1>>)

\* C10 (amended): target 10, current 7, three scale sets: magnitude 10 and
\* counts [4,3,3].
C10_Amended == TenOverSeven => (num = 10 /\ counts = <<4, 3, 3>>)

C10_Witness == TenOverSeven /\ InitialTotal = 7

\* no resize, no delete, no listing and no hook call has been made
NoMutatingCall ==
    /\ \A i \in Shards :
        /\ updateCalls[i] = <<>> /\ deleteCalls[i] = <<>>
        /\ task[i] = "none" /\ listResult[i] = "none"
    /\ preCalls = 0 /\ postCalls = 0

\* C11: no scale set ever gets two requests; when the fan-out has been
\* joined, every scale set with a positive count (grow) or a non-empty
\* instance set (shrink) has had its request issued once and its goroutine
\* has finished, whatever failed for its siblings, and the others have had
\* no request.
C11_FailureIsolation ==
    /\ \A i \in Shards : Len(updateCalls[i]) <= 1 /\ Len(deleteCalls[i]) <= 1
    /\ (pc = "done" /\ direction = "out") =>
          \A i \in Shards :
            /\ Len(updateCalls[i]) = (IF counts[i] > 0 THEN 1 ELSE 0)
            /\ task[i] = (IF counts[i] > 0 THEN "done" ELSE "none")
    /\ postCalls = 1 =>
          \A i \in Shards :
            /\ Len(deleteCalls[i]) =
                  (IF instanceIDs[vmScaleSetList[i]] # <<>> THEN 1 ELSE 0)
            /\ task[i] =
                  (IF instanceIDs[vmScaleSetList[i]] # <<>> THEN "done" ELSE "none")

C11_Witness ==
    /\ pc = "done" /\ direction = "out" /\ NumShards = 2
    /\ taskErr[1] = "request"
    /\ updateCalls[2] # <<>> /\ taskErr[2] = ""

\* C12: when the target equals the total capacity, no resize, delete,
\* listing or hook call is ever made, and once every capacity is read Scale
\* has returned nil.
C12_NoScaling ==
    actionCount = InitialTotal =>
        /\ NoMutatingCall
        /\ Calculated => (pc = "done" /\ ret = "nil" /\ direction = "")

C12_Witness ==
    /\ Calculated /\ pc = "done"
    /\ actionCount = InitialTotal /\ InitialTotal > 1

----------------------------------------------------------------------------
(* Status *)
\* Status returned a status
StatusReturned == pc = "done" /\ ret = "nil" /\ poolReady # "none"

\* every provisioning code the scale set reports is succeeded
ShardReady(i) ==
    /\ \A k \in 1..Len(instanceView[i].StatusesSummary) :
          instanceView[i].StatusesSummary[k] = Succeeded
    /\ \A k \in 1..Len(instanceView[i].Statuses) :
          instanceView[i].Statuses[k].Code = Succeeded

\* the event times the fleet reports
KnownTimes ==
    UNION {{instanceView[i].Statuses[k].Time : k \in 1..Len(instanceView[i].Statuses)} :
              i \in Shards} \ {NoTime}

Max(S) == CHOOSE x \in S : \A y \in S : y <= x

\* C13 as stated: a returned status is ready exactly when every scale set is
\* ready, and its count is the sum of the capacities.
C13_Claim ==
    StatusReturned =>
        /\ resp.Ready = (\A i \in Shards : ShardReady(i))
        /\ resp.Count = SumSeq(capacity)

\* C13 amended: when the node pool is ready (or is not asked about), a
\* returned status has visited every scale set, is ready exactly when every
\* scale set is ready, and counts the sum of the capacities; when the node
\* pool is not ready it is not ready, counts 0, and no scale set was visited.
C13_Amended ==
    StatusReturned =>
        IF poolReady = "notready"
            THEN resp.Ready = FALSE /\ resp.Count = 0 /\ idx = 1
            ELSE /\ idx = NumShards + 1
                 /\ resp.Ready = (\A i \in Shards : ShardReady(i))
                 /\ resp.Count = SumSeq(capacity)

\* a not-ready first scale set, a second one visited and counted all the same
C13_Witness ==
    /\ StatusReturned /\ poolReady = "ready" /\ NumShards = 2
    /\ ~ShardReady(1) /\ ShardReady(2) /\ capacity[2] > 0
    /\ resp.Ready = FALSE /\ resp.Count = capacity[1] + capacity[2]

\* C14: a returned status that visited the scale sets reports as lastEvent the
\* latest known event time, and the minimum-integer sentinel when none is known.
C14_LastEvent ==
    (StatusReturned /\ poolReady # "notready") =>
        resp.Meta = FormatInt(IF KnownTimes = {} THEN MinInt64 ELSE Max(KnownTimes))

----------------------------------------------------------------------------
(* Configuration *)
\* C15: when the scale set list and the resource group list differ in
\* length, no resize, delete or drain hook call is ever made, and a call
\* that is no dry run ends with a configuration error.
C15_LengthMismatch ==
    (Len(resourceGroupList) # NumShards /\ actionCount # DryRunCount) =>
        /\ \A i \in Shards : updateCalls[i] = <<>> /\ deleteCalls[i] = <<>>
        /\ preCalls = 0 /\ postCalls = 0
        /\ pc = "done" => ret = "err_config"

----------------------------------------------------------------------------
(* Candidates *)
\* the identifiers of the running instances of the fleet
RunningIDs ==
    UNION {{RemoteID(vmScaleSetList[i], vmssVMs[i][k].InstanceID) :
              k \in {j \in 1..Len(vmssVMs[i]) : IsRunning(vmssVMs[i][j].Statuses)}} :
           i \in Shards}

\* C16: the pre-drain hook is called with exactly the identifiers of the
\* running instances, and every instance a delete request removes from a
\* scale set is a running instance of that scale set.
C16_RunningOnly ==
    /\ preCalls > 0 => Range(remoteIDs) = RunningIDs
    /\ \A i \in Shards : \A c \in 1..Len(deleteCalls[i]) :
          \A k \in Deleted(i, deleteCalls[i][c]) : IsRunning(vmssVMs[i][k].Statuses)

----------------------------------------------------------------------------
(* Identifier round trip *)
\* C17: the identifier built from a scale set name and an instance id splits
\* at its last "_" into exactly that name and that id, and once the mapping
\* loop has run, the id of every cleared instance is in the delete set kept
\* for its scale set's name.
C17_RoundTrip ==
    \A i \in Shards : \A k \in 1..Len(vmssVMs[i]) :
        LET id == vmssVMs[i][k].InstanceID
            remoteID == RemoteID(vmScaleSetList[i], id)
            sep == LastIndex(remoteID, "_")
        IN  /\ Slice(remoteID, 0, sep) = vmScaleSetList[i]
            /\ Slice(remoteID, sep + 1, Len(remoteID)) = id
            /\ (MappingDone /\ remoteID \in Range(ids)) =>
                  id \in Range(instanceIDs[vmScaleSetList[i]])

\* an instance of the scale set "w_g" cleared and mapped back to it
C17_Witness ==
    /\ MappingDone
    /\ RemoteID(NameWG, <<"0">>) \in Range(ids)
    /\ \E i \in Shards : vmScaleSetList[i] = NameWG /\ vmssVMs[i] # <<>>
    /\ <<"0">> \in Range(instanceIDs[NameWG])

----------------------------------------------------------------------------
(* Termination *)
\* the goroutines that have been started and have not lowered the counter
Unjoined == {i \in Shards : task[i] \in {"started", "waiting"}}

\* the scale sets the dispatch loop has not reached
Undispatched == IF pc \in {"out_loop", "in_loop"} THEN idx..NumShards ELSE {}

\* the call is past wg.Wait()
Joined ==
    \/ pc = "done" /\ direction = "out" /\ ret = "nil"
    \/ pc = "post_wait"
    \/ pc = "done" /\ postCalls = 1

\* C18: the counter is never negative; from the dispatch loop to the wait it
\* counts exactly the scale sets not yet dispatched plus the goroutines that
\* have not finished, so each scale set lowers it once; past the wait it is
\* zero and every goroutine has finished; and every call of Scale returns.
C18_Terminates ==
    /\ [](/\ wg >= 0
          /\ pc \in {"out_loop", "out_wait", "in_loop", "in_wait"} =>
                wg = Cardinality(Undispatched) + Cardinality(Unjoined)
          /\ Joined => (wg = 0 /\ AllFinished))
    /\ <>(pc = "done")

\* a grow joined after one goroutine ran and one scale set took the no-op branch
C18_Witness ==
    /\ Joined /\ direction = "out" /\ NumShards = 2
    /\ \E i, j \in Shards : task[i] = "done" /\ task[j] = "none"

----------------------------------------------------------------------------
(* Growing *)
\* C19: on a grow, every capacity a resize request asks for is at least the
\* capacity the scale set had.
C19_NeverDecreased ==
    direction = "out" =>
        \A i \in Shards : \A c \in 1..Len(updateCalls[i]) :
            updateCalls[i][c] >= Len(vmssVMs[i])

\* C20: when a grow has returned and every resize it issued succeeded, the
\* capacities of the scale sets add up to the target.
C20_SumIsTarget ==
    (pc = "done" /\ direction = "out" /\ ret = "nil"
        /\ \A i \in Shards : taskErr[i] = "") =>
        SumSeq(capacity) = actionCount

====
